---------------------------- MODULE Spec2Model ----------------------------
(***************************************************************************)
(* Orbital Injection Simulator (src/components/OrbitalLab.tsx).            *)
(*                                                                         *)
(* The component keeps React state (running, speed, angle, resetCount,     *)
(* status) in OrbitalLab and the satellite (satPos, satVel, trail,         *)
(* crashed) in SimulationScene.  The handlers handlePlay, handleReset,     *)
(* the two slider onChange handlers and the per-frame callback useFrame    *)
(* are the actions.                                                        *)
(*                                                                         *)
(* Numbers.  The source computes in float64.  Here every real quantity is  *)
(* a fixed-point integer, rounded to nearest after every operation:        *)
(*   positions and lengths   in 1/PosScale  units  (milli-units)           *)
(*   velocities, g, sin, cos in 1/VelScale  units                          *)
(*   unit vectors            in 1/UnitScale                                *)
(*   time                    in milliseconds                               *)
(*   speed (slider, step 0.1) in tenths: 22 is 2.2                         *)
(*   angle (slider, step 1)   in whole degrees                             *)
(* All intermediate products stay below 2^31.                              *)
(*                                                                         *)
(* Steps.  React commits the state updates of one event handler together   *)
(* and runs the effects of that render before the next animation frame,    *)
(* so a handler and the reset effect it triggers are one step, and so is   *)
(* one call of the frame callback with the state updates it makes.         *)
(***************************************************************************)
EXTENDS Integers, Sequences, FiniteSets, TLC

VARIABLES
    running,      \* OrbitalLab: useState(false)
    speed,        \* OrbitalLab: useState(2.2), in tenths
    angle,        \* OrbitalLab: useState(0), degrees
    resetCount,   \* OrbitalLab: useState(0)
    status,       \* OrbitalLab: 'IDLE' | 'ORBITING' | 'CRASH' | 'ESCAPE'
    satPos,       \* SimulationScene: useRef(Vector3), <<x, y, z>>
    satVel,       \* SimulationScene: useRef(Vector3), <<x, y, z>>
    trail,        \* SimulationScene: useState<Vector3[]>
    crashed,      \* SimulationScene: useState(false)
    steps,        \* history: integrating frames since the last (re)initialisation
    lastOp,       \* history: the handler that ran last
    prevOp,       \* history: the handler that ran before it
    prevStatus,   \* history: status before the handler that ran last
    moved,        \* history: the last handler changed satPos or satVel
    escapes,      \* history: onEscape calls made by the last frame
    applied,      \* history: sub-steps of the last frame that applied motion
    frameDt,      \* history: delta (ms) of the last frame, if it integrated
    launchSpeed,  \* history: speed at the most recent launch
    launchAngle,  \* history: angle at the most recent launch
    trajectoryStats \* OrbitalLab: useMemo, the projection shown

vars == <<running, speed, angle, resetCount, status, satPos, satVel, trail,
          crashed, steps, lastOp, prevOp, prevStatus, moved, escapes, applied,
          frameDt, launchSpeed, launchAngle, trajectoryStats>>

(***************************************************************************)
(* Program constants                                                       *)
(***************************************************************************)
PLANET_RADIUS == 2
GM == 20
INITIAL_RADIUS == 4
CRASH_MARGIN_MILLI == 100
ESCAPE_RADIUS == 60
STEPS == 4
TRAIL_MIN_DIST_MILLI == 200
TRAIL_WINDOW == 300
SPEED_MIN == 10
SPEED_MAX == 35
SPEED_DEFAULT == 22
ANGLE_MAX == 45

(***************************************************************************)
(* Fixed-point representation of the float64 quantities                    *)
(***************************************************************************)
PosScale == 1000
VelScale == 100000
UnitScale == 1000
NormExact == 26000

(***************************************************************************)
(* Bounds of the model                                                     *)
(***************************************************************************)
MaxSteps == 6
MaxResets == 2
MaxOrbitSteps == 1200

\* Slider values and frame intervals (ms) tried by Spec
Speeds == {10, 22, 32}
Angles == {-45, 0, 45}
Deltas == {0, 500, 4000}

MaxEscapeSteps == 205
EscapeWithin == 200

\* Slider values and the steady frame interval (ms) tried by SpecEscape
EscapeSpeeds == {32, 33, 34, 35}
EscapeAngles == {-45, -44, -43, -30, -15, 0, 15, 30, 45}
EscapeDeltas == {250}

MaxSliderSteps == 2

\* Every value of the two sliders and the steady frame interval (ms) tried by
\* SpecSliders
SliderSpeeds == SPEED_MIN..SPEED_MAX
SliderAngles == -ANGLE_MAX..ANGLE_MAX
SliderDeltas == {250}

MaxDropSteps == 8
DropWithin == 7

\* Angles and frame intervals (ms) tried by SpecDrop: a steady 0.25 s and
\* the frame that follows a stall of 4.8 s
DropAngles == {-45, 0, 45}
DropDeltas == {250, 4800}

\* Slider values and the steady frame interval (ms) tried by SpecOrbit
OrbitSpeeds == {22, 31}
OrbitAngles == {0, 45}
OrbitDeltas == {250}

(***************************************************************************)
(* Arithmetic                                                              *)
(***************************************************************************)
Abs(a) == IF a < 0 THEN -a ELSE a

Max2(a, b) == IF a >= b THEN a ELSE b

\* a / b rounded to the nearest integer, halves away from zero (b > 0)
RDiv(a, b) ==
    IF a >= 0 THEN (a + b \div 2) \div b
    ELSE -(((-a) + b \div 2) \div b)

RECURSIVE SqrtSearch(_, _, _)
SqrtSearch(n, lo, hi) ==
    IF lo >= hi THEN lo
    ELSE LET mid == (lo + hi + 1) \div 2
         IN  IF mid * mid <= n THEN SqrtSearch(n, mid, hi)
             ELSE SqrtSearch(n, lo, mid - 1)

\* Math.sqrt on a non-negative integer, rounded down
ISqrt(n) == SqrtSearch(n, 0, 46340)

\* THREE.Vector3.length(): sqrt(x*x + y*y + z*z).  Components too large to
\* square in 32 bits are halved first and the result doubled.
RECURSIVE Length(_)
Length(p) ==
    IF Max2(Abs(p[1]), Max2(Abs(p[2]), Abs(p[3]))) <= NormExact
    THEN ISqrt(p[1] * p[1] + p[2] * p[2] + p[3] * p[3])
    ELSE 2 * Length(<<RDiv(p[1], 2), RDiv(p[2], 2), RDiv(p[3], 2)>>)

\* Math.sin and Math.cos of a whole number of degrees in 0..45, in 1/VelScale
SinTable ==
    << 0, 1745, 3490, 5234, 6976, 8716, 10453, 12187, 13917, 15643, 17365,
       19081, 20791, 22495, 24192, 25882, 27564, 29237, 30902, 32557, 34202,
       35837, 37461, 39073, 40674, 42262, 43837, 45399, 46947, 48481, 50000,
       51504, 52992, 54464, 55919, 57358, 58779, 60182, 61566, 62932, 64279,
       65606, 66913, 68200, 69466, 70711 >>

CosTable ==
    << 100000, 99985, 99939, 99863, 99756, 99619, 99452, 99255, 99027, 98769,
       98481, 98163, 97815, 97437, 97030, 96593, 96126, 95630, 95106, 94552,
       93969, 93358, 92718, 92050, 91355, 90631, 89879, 89101, 88295, 87462,
       86603, 85717, 84805, 83867, 82904, 81915, 80902, 79864, 78801, 77715,
       76604, 75471, 74314, 73135, 71934, 70711 >>

\* Math.sin((deg * Math.PI) / 180)
Sin(deg) == IF deg >= 0 THEN SinTable[deg + 1] ELSE -SinTable[-deg + 1]

\* Math.cos((deg * Math.PI) / 180)
Cos(deg) == CosTable[Abs(deg) + 1]

(***************************************************************************)
(* THREE.Vector3 operations                                                *)
(***************************************************************************)
VecAdd(p, q) == <<p[1] + q[1], p[2] + q[2], p[3] + q[3]>>

VecSub(p, q) == <<p[1] - q[1], p[2] - q[2], p[3] - q[3]>>

\* a.distanceTo(b)
DistanceTo(p, q) == Length(VecSub(p, q))

\* p.clone().normalize(): p / |p|, in 1/UnitScale (the zero vector stays zero)
Normalize(p, r) ==
    IF r = 0 THEN <<0, 0, 0>>
    ELSE <<RDiv(p[1] * UnitScale, r), RDiv(p[2] * UnitScale, r),
           RDiv(p[3] * UnitScale, r)>>

(***************************************************************************)
(* SimulationScene                                                         *)
(***************************************************************************)
InitialPos == <<INITIAL_RADIUS * PosScale, 0, 0>>

InitialVelOutOfPlane(spd, ang) ==
    <<RDiv(Sin(ang) * spd, 10), -RDiv(Cos(ang) * spd, 10), 0>>

InitialVelSwapped(spd, ang) ==
    <<RDiv(Cos(ang) * spd, 10), 0, -RDiv(Sin(ang) * spd, 10)>>

\* vx = sin(rads) * initialSpeed, vz = -cos(rads) * initialSpeed
InitialVel(spd, ang) ==
    <<RDiv(Sin(ang) * spd, 10), 0, -RDiv(Cos(ang) * spd, 10)>>

\* GM / (r * r), in 1/VelScale, for r in 1/PosScale
Gravity(r) == RDiv(RDiv(GM * VelScale * PosScale, r) * PosScale, r)

AccelAlongAxis(p, r) == <<-Gravity(r), 0, 0>>

\* satPos.clone().normalize().negate().multiplyScalar(GM / (r * r))
Accel(p, r) ==
    LET u == Normalize(p, r)
        g == Gravity(r)
    IN  <<RDiv(-u[1] * g, UnitScale), RDiv(-u[2] * g, UnitScale),
          RDiv(-u[3] * g, UnitScale)>>

\* v.multiplyScalar(dt) for the velocity update: accel (1/VelScale) times dt (ms)
ScaleAccel(a, dt) == <<RDiv(a[1] * dt, 1000), RDiv(a[2] * dt, 1000),
                       RDiv(a[3] * dt, 1000)>>

\* v.multiplyScalar(dt) for the position update: velocity (1/VelScale) times
\* dt (ms), in 1/PosScale
ScaleVel(v, dt) ==
    <<RDiv(v[1] * dt, 1000 * (VelScale \div PosScale)),
      RDiv(v[2] * dt, 1000 * (VelScale \div PosScale)),
      RDiv(v[3] * dt, 1000 * (VelScale \div PosScale))>>

CrashTestAtSurface(r) == r < PLANET_RADIUS * PosScale

\* if (r < PLANET_RADIUS + 0.1)
CrashTest(r) == r < PLANET_RADIUS * PosScale + CRASH_MARGIN_MILLI

EscapeTestFar(r) == r > 10 * ESCAPE_RADIUS * PosScale

\* if (r > 60)
EscapeTest(r) == r > ESCAPE_RADIUS * PosScale

\* satVel.current.add(accel.multiplyScalar(dt))
VelUpdate(p, v, r, dt) == VecAdd(v, ScaleAccel(Accel(p, r), dt))

\* satPos.current.add(satVel.current.clone().multiplyScalar(dt)), with the
\* velocity the sub-step has just updated
PosUpdate(p, vNew, dt) == VecAdd(p, ScaleVel(vNew, dt))

\* const dt = (delta * 1) / steps
SubDt(delta) == RDiv(delta, STEPS)

SubStepPositionFirst(s, r, dt) ==
    LET v == VelUpdate(s.pos, s.vel, r, dt)
    IN  [pos |-> PosUpdate(s.pos, s.vel, dt), vel |-> v,
         esc |-> IF EscapeTest(r) THEN s.esc + 1 ELSE s.esc,
         crash |-> FALSE, done |-> s.done + 1]

SubStepFreezesOnEscape(s, r, dt) ==
    IF EscapeTest(r)
    THEN [s EXCEPT !.esc = s.esc + 1]
    ELSE LET v == VelUpdate(s.pos, s.vel, r, dt)
         IN  [pos |-> PosUpdate(s.pos, v, dt), vel |-> v, esc |-> s.esc,
              crash |-> FALSE, done |-> s.done + 1]

\* One pass of the loop body after the crash test: the escape test, the
\* velocity update and the position update with the updated velocity.
SubStep(s, r, dt) ==
    LET v == VelUpdate(s.pos, s.vel, r, dt)
    IN  [pos |-> PosUpdate(s.pos, v, dt), vel |-> v,
         esc |-> IF EscapeTest(r) THEN s.esc + 1 ELSE s.esc,
         crash |-> FALSE, done |-> s.done + 1]

RECURSIVE SubStepsTestAfterMove(_, _, _)
SubStepsTestAfterMove(i, s, dt) ==
    IF i >= STEPS THEN s
    ELSE LET q == SubStep(s, Length(s.pos), dt)
         IN  IF CrashTest(Length(q.pos)) THEN [q EXCEPT !.crash = TRUE]
             ELSE SubStepsTestAfterMove(i + 1, q, dt)

\* The for loop of useFrame from sub-step i on.  s is the loop's state:
\* pos, vel, the number of onEscape calls so far, crash (the early return)
\* and done (the sub-steps that applied motion).
RECURSIVE SubSteps(_, _, _)
SubSteps(i, s, dt) ==
    IF i >= STEPS THEN s
    ELSE LET r == Length(s.pos)
         IN  IF CrashTest(r) THEN [s EXCEPT !.crash = TRUE]
             ELSE SubSteps(i + 1, SubStep(s, r, dt), dt)

IntegrateMovesOnCrash(p, v, delta) ==
    LET s == SubSteps(0, [pos |-> p, vel |-> v, esc |-> 0, crash |-> FALSE,
                          done |-> 0], SubDt(delta))
    IN  IF s.crash
        THEN [SubStep(s, Length(s.pos), SubDt(delta)) EXCEPT !.crash = TRUE]
        ELSE s

Integrate(p, v, delta) ==
    SubSteps(0, [pos |-> p, vel |-> v, esc |-> 0, crash |-> FALSE, done |-> 0],
             SubDt(delta))

\* The values r = satPos.current.length() takes in the loop from sub-step i
\* on, followed by the length of the position the loop leaves
RECURSIVE Radii(_, _, _)
Radii(i, s, dt) ==
    LET r == Length(s.pos)
    IN  IF i >= STEPS \/ CrashTest(r) THEN <<r>>
        ELSE <<r>> \o Radii(i + 1, SubStep(s, r, dt), dt)

FrameRadii(p, v, delta) ==
    Radii(0, [pos |-> p, vel |-> v, esc |-> 0, crash |-> FALSE, done |-> 0],
          SubDt(delta))

SliceLastAll(t, n) == t

\* prev.slice(-300)
SliceLast(t, n) == IF Len(t) <= n THEN t ELSE SubSeq(t, Len(t) - n + 1, Len(t))

TrailUpdateAlways(prev, p) == Append(SliceLast(prev, TRAIL_WINDOW), p)

\* The updater handed to setTrail
TrailUpdate(prev, p) ==
    IF Len(prev) > 0 /\ DistanceTo(prev[Len(prev)], p) > TRAIL_MIN_DIST_MILLI
    THEN Append(SliceLast(prev, TRAIL_WINDOW), p)
    ELSE prev

\* The dependency list of the Initialize / Reset effect
EffectDeps(rc, spd, ang) == <<rc, spd, ang>>

ResetEffectKeepsTrail(rc, spd, ang) ==
    IF EffectDeps(rc, spd, ang) # EffectDeps(resetCount, speed, angle)
    THEN /\ satPos' = InitialPos
         /\ satVel' = InitialVel(spd, ang)
         /\ crashed' = FALSE
         /\ steps' = 0
         /\ UNCHANGED trail
    ELSE UNCHANGED <<satPos, satVel, trail, crashed, steps>>

\* useEffect(() => {...}, [resetTrigger, initialSpeed, angle]): the effect
\* runs after a render in which a dependency changed.
ResetEffect(rc, spd, ang) ==
    IF EffectDeps(rc, spd, ang) # EffectDeps(resetCount, speed, angle)
    THEN /\ satPos' = InitialPos
         /\ satVel' = InitialVel(spd, ang)
         /\ trail' = <<InitialPos>>
         /\ crashed' = FALSE
         /\ steps' = 0
    ELSE UNCHANGED <<satPos, satVel, trail, crashed, steps>>

History(op) ==
    /\ lastOp' = op
    /\ prevOp' = lastOp
    /\ prevStatus' = status
    /\ moved' = (satPos' # satPos \/ satVel' # satVel)

(***************************************************************************)
(* OrbitalLab: the trajectory projection                                   *)
(***************************************************************************)
\* specificEnergy = (v0 * v0) / 2 - GM / r0, in 1/PosScale, for the speed in
\* tenths
SpecificEnergy(spd) ==
    (spd * spd * PosScale) \div 200 - (GM * PosScale) \div INITIAL_RADIUS

\* if (specificEnergy >= 0): "Interstellar Space (Escape)"
PredictsEscape(spd) == SpecificEnergy(spd) >= 0

\* v0 * Math.cos(rads): the tangential component of the launch velocity, in
\* 1/VelScale
TangentialSpeed(spd, ang) == RDiv(Cos(ang) * spd, 10)

\* h = r0 * v0 * Math.cos(rads), in 1/VelScale.  The product by r0 = 4, a
\* power of two, is exact in float64, so h is r0 times the rounded
\* v0 * cos(rads).
AngularMomentum(spd, ang) == INITIAL_RADIUS * TangentialSpeed(spd, ang)

SemiMajorAxisNoHalf(spd) ==
    RDiv(GM * PosScale * PosScale, -SpecificEnergy(spd))

\* a = -GM / (2 * specificEnergy), in 1/PosScale (specificEnergy < 0)
SemiMajorAxis(spd) ==
    RDiv(GM * PosScale * PosScale, -2 * SpecificEnergy(spd))

\* 1 in the unit of EccSquared
EccOne == 100000000

EccSquaredGMNotSquared(spd, ang) ==
    LET h == RDiv(AngularMomentum(spd, ang), VelScale \div PosScale)
    IN  EccOne + 2 * SpecificEnergy(spd) * RDiv(h * h, 10 * GM)

\* 1 + (2 * specificEnergy * h * h) / (GM * GM), the argument of Math.sqrt,
\* in 1/EccOne: h in 1/PosScale, h * h / (GM * GM) in 1/100000
EccSquared(spd, ang) ==
    LET h == RDiv(AngularMomentum(spd, ang), VelScale \div PosScale)
    IN  EccOne + 2 * SpecificEnergy(spd) * RDiv(h * h, 10 * GM * GM)

\* Math.sqrt of a negative number
NaN == -1

\* e = Math.sqrt(1 + (2 * specificEnergy * h * h) / (GM * GM)), in 1/10000
Eccentricity(spd, ang) ==
    IF EccSquared(spd, ang) < 0 THEN NaN ELSE ISqrt(EccSquared(spd, ang))

\* rMax = Infinity; maxAU = Infinity
Infinity == 2147483647

\* rMax = a * (1 + e), in 1/PosScale
Apoapsis(spd, ang) ==
    IF PredictsEscape(spd) THEN Infinity
    ELSE RDiv(SemiMajorAxis(spd) * (10000 + Eccentricity(spd, ang)), 10000)

MaxAUNotConverted(spd, ang) == Apoapsis(spd, ang)

\* maxAU = rMax / 4, in 1/PosScale
MaxAU(spd, ang) ==
    IF PredictsEscape(spd) THEN Infinity
    ELSE RDiv(Apoapsis(spd, ang), INITIAL_RADIUS)

\* The if / else if chain on maxAU of the bound branch
TargetText(maxAU) ==
    IF maxAU < 1100 THEN "Low Earth Orbit"
    ELSE IF maxAU < 1400 THEN "High Earth Orbit"
    ELSE IF maxAU < 1800 THEN "Reaching Mars"
    ELSE IF maxAU < 3000 THEN "Asteroid Belt"
    ELSE IF maxAU < 6000 THEN "Reaching Jupiter"
    ELSE IF maxAU < 12000 THEN "Reaching Saturn"
    ELSE IF maxAU < 25000 THEN "Reaching Uranus"
    ELSE "Reaching Neptune/Pluto"

\* The value of the useMemo callback: { maxAU, targetText, energy }
TrajectoryStats(spd, ang) ==
    [maxAU |-> MaxAU(spd, ang),
     targetText |-> IF PredictsEscape(spd) THEN "Interstellar Space (Escape)"
                    ELSE TargetText(MaxAU(spd, ang)),
     energy |-> SpecificEnergy(spd)]

MemoDepsSpeedOnly(spd, ang) == <<spd>>

\* The dependency list of useMemo
MemoDeps(spd, ang) == <<spd, ang>>

\* useMemo(() => {...}, [speed, angle]) in the render that follows a handler
\* which leaves the sliders at spd and ang: the callback runs again when a
\* dependency has changed.
Memo(spd, ang) ==
    trajectoryStats' = IF MemoDeps(spd, ang) # MemoDeps(speed, angle)
                       THEN TrajectoryStats(spd, ang)
                       ELSE trajectoryStats

(***************************************************************************)
(* OrbitalLab handlers                                                     *)
(***************************************************************************)
PlayIgnoredIfCrashed == crashed

PlayIgnoredNever == FALSE

\* if (running) return
PlayIgnored == running

handlePlay ==
    /\ IF PlayIgnored
       THEN UNCHANGED <<running, status, launchSpeed, launchAngle>>
       ELSE /\ running' = TRUE
            /\ status' = "ORBITING"
            /\ launchSpeed' = speed
            /\ launchAngle' = angle
    /\ UNCHANGED <<speed, angle, resetCount, satPos, satVel, trail, crashed,
                   steps, trajectoryStats>>
    /\ escapes' = 0
    /\ applied' = 0
    /\ frameDt' = 0
    /\ History("launch")

NextResetCountSame == resetCount

\* setResetCount(p => p + 1)
NextResetCount == resetCount + 1

ResetStatusKept == status

\* setStatus('IDLE')
ResetStatus == "IDLE"

\* handleReset, run with the slider values spd and ang in force
handleResetWith(spd, ang) ==
    /\ running' = FALSE
    /\ resetCount' = NextResetCount
    /\ status' = ResetStatus
    /\ speed' = spd
    /\ angle' = ang
    /\ ResetEffect(resetCount', spd, ang)
    /\ Memo(spd, ang)
    /\ UNCHANGED <<launchSpeed, launchAngle>>
    /\ escapes' = 0
    /\ applied' = 0
    /\ frameDt' = 0

handleReset ==
    /\ handleResetWith(speed, angle)
    /\ History("reset")

speedChangeNoReset(v) ==
    /\ v # speed
    /\ speed' = v
    /\ ResetEffect(resetCount, v, angle)
    /\ Memo(v, angle)
    /\ UNCHANGED <<running, angle, resetCount, status, launchSpeed, launchAngle>>
    /\ escapes' = 0
    /\ applied' = 0
    /\ frameDt' = 0
    /\ History("speed")

\* onChange of the speed slider: setSpeed(parseFloat(value)); handleReset()
speedChange(v) ==
    /\ v # speed
    /\ handleResetWith(v, angle)
    /\ History("speed")

\* onChange of the angle slider: setAngle(parseInt(value)); handleReset()
angleChange(a) ==
    /\ a # angle
    /\ handleResetWith(speed, a)
    /\ History("angle")

(***************************************************************************)
(* The frame callback                                                      *)
(***************************************************************************)
FrameSkipsIgnoresRunning == crashed

\* if (!running || crashed) return
FrameSkips == ~running \/ crashed

useFrame(delta) ==
    /\ IF FrameSkips
       THEN /\ UNCHANGED <<satPos, satVel, trail, crashed, status, steps>>
            /\ escapes' = 0
            /\ applied' = 0
            /\ frameDt' = 0
       ELSE \E s \in {Integrate(satPos, satVel, delta)} :
                /\ satPos' = s.pos
                /\ satVel' = s.vel
                /\ escapes' = s.esc
                /\ applied' = s.done
                /\ frameDt' = delta
                /\ steps' = steps + 1
                /\ IF s.crash
                   THEN /\ crashed' = TRUE
                        /\ status' = "CRASH"
                        /\ trail' = trail
                   ELSE /\ crashed' = crashed
                        /\ status' = IF s.esc > 0 THEN "ESCAPE" ELSE status
                        /\ trail' = TrailUpdate(trail, s.pos)
    /\ UNCHANGED <<running, speed, angle, resetCount, launchSpeed, launchAngle,
                   trajectoryStats>>
    /\ History("frame")

\* The frame callback of the render before a crash, called again before the
\* render that follows setCrashed(true): its closure still holds
\* crashed = false (and running = true), so the guard of line 110 lets it
\* through to the loop.
staleFrame(delta) ==
    /\ running
    /\ crashed
    /\ \/ lastOp = "frame" /\ prevStatus # "CRASH"
       \/ lastOp = "stale"
    /\ \E s \in {Integrate(satPos, satVel, delta)} :
           /\ satPos' = s.pos
           /\ satVel' = s.vel
           /\ escapes' = s.esc
           /\ applied' = s.done
           /\ frameDt' = delta
           /\ steps' = steps + 1
           /\ IF s.crash
              THEN /\ crashed' = TRUE
                   /\ status' = "CRASH"
                   /\ trail' = trail
              ELSE /\ crashed' = crashed
                   /\ status' = IF s.esc > 0 THEN "ESCAPE" ELSE status
                   /\ trail' = TrailUpdate(trail, s.pos)
    /\ UNCHANGED <<running, speed, angle, resetCount, launchSpeed, launchAngle,
                   trajectoryStats>>
    /\ History("stale")

(***************************************************************************)
(* Specifications                                                          *)
(***************************************************************************)
Init ==
    /\ running = FALSE
    /\ speed = SPEED_DEFAULT
    /\ angle = 0
    /\ resetCount = 0
    /\ status = "IDLE"
    /\ satPos = InitialPos
    /\ satVel = InitialVel(SPEED_DEFAULT, 0)
    /\ trail = <<InitialPos>>
    /\ crashed = FALSE
    /\ steps = 0
    /\ lastOp = "init"
    /\ prevOp = "init"
    /\ prevStatus = "IDLE"
    /\ moved = FALSE
    /\ escapes = 0
    /\ applied = 0
    /\ frameDt = 0
    /\ launchSpeed = SPEED_DEFAULT
    /\ launchAngle = 0
    /\ trajectoryStats = TrajectoryStats(SPEED_DEFAULT, 0)

Next ==
    \/ handlePlay
    \/ (resetCount < MaxResets /\ handleReset)
    \/ (resetCount < MaxResets /\ \E v \in Speeds : speedChange(v))
    \/ (resetCount < MaxResets /\ \E a \in Angles : angleChange(a))
    \/ (steps < MaxSteps /\ \E d \in Deltas : useFrame(d))

Spec == Init /\ [][Next]_vars

\* Long runs at a steady frame rate
NextOrbit ==
    \/ handlePlay
    \/ (resetCount < MaxResets /\ handleReset)
    \/ (resetCount < MaxResets /\ \E v \in OrbitSpeeds : speedChange(v))
    \/ (resetCount < MaxResets /\ \E a \in OrbitAngles : angleChange(a))
    \/ (steps < MaxOrbitSteps /\ \E d \in OrbitDeltas : useFrame(d))

SpecOrbit == Init /\ [][NextOrbit]_vars

\* Launches at escape speed at a steady frame rate
NextEscape ==
    \/ handlePlay
    \/ (resetCount < MaxResets /\ handleReset)
    \/ (resetCount < MaxResets /\ \E v \in EscapeSpeeds : speedChange(v))
    \/ (resetCount < MaxResets /\ \E a \in EscapeAngles : angleChange(a))
    \/ (steps < MaxEscapeSteps /\ \E d \in EscapeDeltas : useFrame(d))

SpecEscape == Init /\ [][NextEscape]_vars

\* Every setting of the two sliders, each reached by moving the angle slider
\* first and the speed slider next, then launches, resets and the first
\* frames of the run
NextSliders ==
    \/ handlePlay
    \/ (resetCount < MaxResets /\ handleReset)
    \/ (lastOp \in {"init", "angle"} /\ \E v \in SliderSpeeds : speedChange(v))
    \/ (lastOp = "init" /\ \E a \in SliderAngles : angleChange(a))
    \/ (steps < MaxSliderSteps /\ \E d \in SliderDeltas : useFrame(d))

SpecSliders == Init /\ [][NextSliders]_vars

\* SimulationScene mounted with initialSpeed = 0, a value of the prop that
\* the speed slider of OrbitalLab (1.0 to 3.5) never supplies
InitDrop ==
    /\ running = FALSE
    /\ speed = 0
    /\ angle = 0
    /\ resetCount = 0
    /\ status = "IDLE"
    /\ satPos = InitialPos
    /\ satVel = InitialVel(0, 0)
    /\ trail = <<InitialPos>>
    /\ crashed = FALSE
    /\ steps = 0
    /\ lastOp = "init"
    /\ prevOp = "init"
    /\ prevStatus = "IDLE"
    /\ moved = FALSE
    /\ escapes = 0
    /\ applied = 0
    /\ frameDt = 0
    /\ launchSpeed = 0
    /\ launchAngle = 0
    /\ trajectoryStats = TrajectoryStats(0, 0)

\* Runs of the scene at speed 0
NextDrop ==
    \/ handlePlay
    \/ (resetCount < MaxResets /\ handleReset)
    \/ (resetCount < MaxResets /\ \E a \in DropAngles : angleChange(a))
    \/ (steps < MaxDropSteps /\ \E d \in DropDeltas : useFrame(d))

SpecDrop == InitDrop /\ [][NextDrop]_vars

\* The runs of Spec, with frames that arrive between a crash and the render
\* that shows it to the frame callback
NextStale ==
    \/ handlePlay
    \/ (resetCount < MaxResets /\ handleReset)
    \/ (resetCount < MaxResets /\ \E v \in Speeds : speedChange(v))
    \/ (resetCount < MaxResets /\ \E a \in Angles : angleChange(a))
    \/ (steps < MaxSteps /\ \E d \in Deltas : useFrame(d))
    \/ (steps < MaxSteps /\ \E d \in Deltas : staleFrame(d))

SpecStale == Init /\ [][NextStale]_vars

TypeOK ==
    /\ running \in BOOLEAN
    /\ speed \in SPEED_MIN..SPEED_MAX
    /\ angle \in -ANGLE_MAX..ANGLE_MAX
    /\ status \in {"IDLE", "ORBITING", "CRASH", "ESCAPE"}
    /\ crashed \in BOOLEAN
    /\ Len(trail) >= 1

(***************************************************************************)
(* Properties                                                              *)
(***************************************************************************)
Statuses == {"IDLE", "ORBITING", "CRASH", "ESCAPE"}

\* What the presentation layer can see of the run
Observable == <<running, status, speed, angle, satPos, satVel, trail, crashed>>

\* C1: a launch takes effect only when status is IDLE, and then sets status
\* to ORBITING and running to true; a launch issued in ORBITING, CRASH or
\* ESCAPE leaves status, running, position, velocity, trail, speed and
\* angle as they were.
C1_LaunchOnlyFromIdle ==
    [][lastOp' = "launch" =>
         IF status = "IDLE"
         THEN status' = "ORBITING" /\ running' = TRUE
         ELSE UNCHANGED <<status, running, satPos, satVel, trail, speed,
                          angle>>]_vars

\* A launch was issued while the status was ESCAPE, and was ignored.
C1_Witness ==
    lastOp = "launch" /\ prevStatus = "ESCAPE" /\ status = "ESCAPE" /\ running

\* C2: reset is accepted in every status and always leaves status IDLE,
\* running false, crashed false, the position at (R0, 0), the velocity
\* recomputed from the current speed and angle, and the trail holding only
\* the injection point.
C2_ResetAlwaysReinitialises ==
    /\ [](ENABLED handleReset)
    /\ [][lastOp' = "reset" =>
            /\ status' = "IDLE"
            /\ running' = FALSE
            /\ crashed' = FALSE
            /\ satPos' = InitialPos
            /\ satVel' = InitialVel(speed, angle)
            /\ trail' = <<InitialPos>>
            /\ speed' = speed
            /\ angle' = angle]_vars

\* A reset was issued after a crash, away from the injection point.
C2_Witness ==
    /\ lastOp = "reset"
    /\ prevStatus = "CRASH"
    /\ status = "IDLE"
    /\ satPos = InitialPos
    /\ ~crashed

\* C3: a change of speed or angle, in any status, forces the run to IDLE
\* with running false and re-initialises the satellite from the new values;
\* so whenever the status is not IDLE the current speed and angle are those
\* of the most recent launch.
C3_ParameterChangeResets ==
    /\ [](status # "IDLE" => speed = launchSpeed /\ angle = launchAngle)
    /\ [][lastOp' \in {"speed", "angle"} =>
            /\ status' = "IDLE"
            /\ running' = FALSE
            /\ <<speed', angle'>> # <<speed, angle>>
            /\ satPos' = InitialPos
            /\ satVel' = InitialVel(speed', angle')
            /\ trail' = <<InitialPos>>
            /\ crashed' = FALSE]_vars

\* The speed was changed during a run, to a value other than the launch's.
C3_Witness ==
    /\ lastOp = "speed"
    /\ prevStatus = "ORBITING"
    /\ speed # launchSpeed
    /\ status = "IDLE"

\* C4: a frame is a no-op whenever the status is IDLE or a crash has fired:
\* position, velocity, trail, crashed and status are unchanged by it,
\* whatever dt is.
C4_FrameNoOpWhenInactive ==
    [][lastOp' = "frame" /\ (status = "IDLE" \/ status = "CRASH" \/ crashed) =>
         UNCHANGED <<satPos, satVel, trail, crashed, status>>]_vars

\* Two frames in a row ran after a crash.
C4_Witness ==
    /\ lastOp = "frame"
    /\ prevOp = "frame"
    /\ prevStatus = "CRASH"
    /\ status = "CRASH"
    /\ ~moved

\* C5: escape is not terminal.  A frame in which a sub-step starts beyond
\* the escape radius sets the status to ESCAPE (unless a later sub-step of
\* the same frame crashes) and that sub-step still applies its velocity and
\* position updates; every later frame integrates all its sub-steps, and
\* with dt > 0 moves the satellite, while the status stays ESCAPE.
C5_EscapeNotTerminal ==
    [][lastOp' = "frame" =>
         /\ (escapes' > 0 =>
                (status' = "ESCAPE" \/ crashed') /\ applied' >= escapes')
         /\ (status = "ESCAPE" /\ ~crashed' =>
                applied' = STEPS /\ status' = "ESCAPE")
         /\ (status = "ESCAPE" /\ ~crashed' /\ frameDt' > 0 =>
                satPos' # satPos)]_vars

\* A frame ran while the status was already ESCAPE and moved the satellite.
C5_Witness ==
    /\ lastOp = "frame"
    /\ prevStatus = "ESCAPE"
    /\ status = "ESCAPE"
    /\ applied = STEPS
    /\ moved
    /\ Length(satPos) > ESCAPE_RADIUS * PosScale

\* C6 as claimed: the satellite is mutated only while the status is
\* ORBITING; after a CRASH or an ESCAPE, position and velocity do not change
\* until the run is back to IDLE.
C6_FrozenAfterCrashOrEscape ==
    [][status # "ORBITING" /\ status' # "IDLE" =>
         satPos' = satPos /\ satVel' = satVel]_vars

\* C6 (amended): the satellite is mutated only while the status is ORBITING
\* or ESCAPE; after a CRASH, position and velocity do not change until the
\* run is back to IDLE.
C6_FrozenAfterCrash ==
    [][status \notin {"ORBITING", "ESCAPE"} /\ status' # "IDLE" =>
         satPos' = satPos /\ satVel' = satVel]_vars

\* A launch was issued on the wreck and left it where it crashed.
C6_Witness ==
    /\ lastOp = "launch"
    /\ prevStatus = "CRASH"
    /\ status = "CRASH"
    /\ ~moved
    /\ satPos # InitialPos

\* The status changes the specification lists, with the handler that makes
\* each of them
TransitionsClaimed ==
    {<<"IDLE", "ORBITING", "launch">>, <<"ORBITING", "CRASH", "frame">>,
     <<"ORBITING", "ESCAPE", "frame">>}
    \cup {<<s, "IDLE", op>> : s \in Statuses, op \in {"reset", "speed", "angle"}}

TrailAppended ==
    LET n == Len(trail)
        m == Len(trail')
    IN  /\ m = (IF n >= TRAIL_WINDOW THEN TRAIL_WINDOW + 1 ELSE n + 1)
        /\ trail'[m] = satPos'
        /\ \A i \in 1..(m - 1) : trail'[i] = trail[i + n + 1 - m]

\* C8 as claimed: the trail never holds more than 300 points, and an append
\* at the cap evicts the oldest points and keeps the order of the others.
C8_TrailAtMostWindow ==
    /\ [](Len(trail) <= TRAIL_WINDOW)
    /\ [][lastOp' = "frame" /\ trail' # trail => TrailAppended]_vars

\* C8 (amended): the trail never holds more than 301 points, the 300 most
\* recent ones kept by slice(-300) and the appended one; an append to a
\* trail of 300 or more points evicts the oldest points and keeps the order
\* of the others.
C8_TrailAtMostWindowPlusOne ==
    /\ [](Len(trail) <= TRAIL_WINDOW + 1)
    /\ [][lastOp' = "frame" /\ trail' # trail => TrailAppended]_vars

\* The trail is full, and the injection point has been evicted.
C8_Witness ==
    /\ lastOp = "frame"
    /\ Len(trail) = TRAIL_WINDOW + 1
    /\ trail[1] # InitialPos
    /\ trail[Len(trail)] = satPos

\* What a reset leaves, given the slider values, with a trail t
AfterReset(spd, ang, t) ==
    <<FALSE, "IDLE", spd, ang, InitialPos, InitialVel(spd, ang), t, FALSE>>

\* C9 as claimed: reset after reset gives the state of a single reset, and
\* that state has the position at R0, a zero-length trail and status IDLE,
\* whatever came before.
C9_ResetIdempotentEmptyTrail ==
    [][lastOp' = "reset" =>
         /\ Observable' = AfterReset(speed, angle, << >>)
         /\ (lastOp = "reset" => Observable' = Observable)]_vars

\* C9 (amended): reset after reset gives the state of a single reset, and
\* that state has the position at R0, a trail of exactly one point, the
\* injection position, and status IDLE, whatever came before.
C9_ResetIdempotent ==
    [][lastOp' = "reset" =>
         /\ Observable' = AfterReset(speed, angle, <<InitialPos>>)
         /\ (lastOp = "reset" => Observable' = Observable)]_vars

\* Two resets in a row.
C9_Witness ==
    /\ lastOp = "reset"
    /\ prevOp = "reset"
    /\ resetCount >= 2
    /\ Observable = AfterReset(speed, angle, <<InitialPos>>)

\* The launches at escape energy that dive below the crash radius
SteepInward == {<<32, -45>>, <<32, -44>>, <<33, -45>>}

NonIncreasing(radii) ==
    \A i \in 1..(Len(radii) - 1) : radii[i + 1] <= radii[i]

C12_CrashBeforeHalfRevolution ==
    status # "IDLE" /\ launchSpeed = 10 /\ launchAngle = 0 =>
        satPos[3] <= 0 /\ status # "ESCAPE"

\* C13: right after a launch that takes effect, and before any frame, the
\* position is (R0, 0), the velocity is the decomposition of the current
\* speed and angle (radial component speed * sin(angle), outward for a
\* positive angle; tangential component of magnitude speed * cos(angle)),
\* R0 times the tangential component is the angular momentum h of the
\* projection, and the trail holds the injection point only.
C13_LaunchState ==
    [][lastOp' = "launch" /\ status = "IDLE" =>
         /\ satPos' = InitialPos
         /\ satVel'[1] = RDiv(Sin(angle') * speed', 10)
         /\ (angle' > 0 => satVel'[1] > 0)
         /\ (angle' < 0 => satVel'[1] < 0)
         /\ satVel'[2] = 0
         /\ Abs(satVel'[3]) = RDiv(Cos(angle') * speed', 10)
         /\ INITIAL_RADIUS * Abs(satVel'[3]) = AngularMomentum(speed', angle')
         /\ trail' = <<InitialPos>>
         /\ steps' = 0]_vars

\* A launch at speed 1.0, 45 degrees outward, after an earlier run.
C13_Witness ==
    /\ lastOp = "launch"
    /\ prevStatus = "IDLE"
    /\ status = "ORBITING"
    /\ speed = 10
    /\ angle = 45
    /\ resetCount = 2
    /\ satVel = <<70711, 0, -70711>>
    /\ trail = <<InitialPos>>

\* The ascending upper bounds of maxAU, in 1/PosScale, and the labels in
\* rank order: the bounded bands, the catch-all and the escape label
UpperBounds == <<1100, 1400, 1800, 3000, 6000, 12000, 25000>>

Labels ==
    <<"Low Earth Orbit", "High Earth Orbit", "Reaching Mars", "Asteroid Belt",
      "Reaching Jupiter", "Reaching Saturn", "Reaching Uranus",
      "Reaching Neptune/Pluto", "Interstellar Space (Escape)">>

Rank(text) == CHOOSE i \in 1..Len(Labels) : Labels[i] = text

\* The first bound, in ascending order, that m is strictly below; the
\* catch-all when there is none
FirstMatch(m) ==
    IF \E i \in 1..Len(UpperBounds) : m < UpperBounds[i]
    THEN CHOOSE i \in 1..Len(UpperBounds) :
             /\ m < UpperBounds[i]
             /\ \A j \in 1..(i - 1) : ~(m < UpperBounds[j])
    ELSE Len(UpperBounds) + 1

\* The projection shown is the one the claim describes for the sliders
ClassifiedAsClaimed ==
    /\ \E i \in 1..Len(Labels) : trajectoryStats.targetText = Labels[i]
    /\ IF speed * speed * INITIAL_RADIUS >= 200 * GM
       THEN /\ trajectoryStats.maxAU = Infinity
            /\ trajectoryStats.targetText = Labels[Len(Labels)]
       ELSE /\ Apoapsis(speed, angle) < Infinity
            /\ Apoapsis(speed, angle) =
                   RDiv(SemiMajorAxis(speed) * (10000 + Eccentricity(speed, angle)),
                        10000)
            /\ trajectoryStats.maxAU = RDiv(Apoapsis(speed, angle), 4)
            /\ trajectoryStats.targetText = Labels[FirstMatch(trajectoryStats.maxAU)]

\* C14: the classification shown is a total function of (speed, angle).
\* With E = speed^2 / 2 - GM / R0 >= 0 the apoapsis is infinite and the label
\* is the escape label; otherwise the apoapsis a (1 + e) is finite, maxAU is
\* a quarter of it, and the label is that of the first of the bounds 1.1,
\* 1.4, 1.8, 3.0, 6.0, 12.0, 25.0 that maxAU is strictly below, the last
\* label when there is none; the label rank never decreases when the
\* apoapsis increases.
C14_Classification ==
    /\ []ClassifiedAsClaimed
    /\ [][/\ (trajectoryStats.maxAU <= trajectoryStats'.maxAU =>
                 Rank(trajectoryStats.targetText) <=
                     Rank(trajectoryStats'.targetText))
           /\ (trajectoryStats'.maxAU <= trajectoryStats.maxAU =>
                 Rank(trajectoryStats'.targetText) <=
                     Rank(trajectoryStats.targetText))]_vars

\* The setting with the farthest finite apoapsis falls through every bound
\* to the catch-all label.
C14_Witness ==
    /\ speed = 31
    /\ angle = 45
    /\ trajectoryStats.maxAU >= 25000
    /\ trajectoryStats.maxAU < Infinity
    /\ trajectoryStats.targetText = "Reaching Neptune/Pluto"

\* C15: the projection shown depends on the current speed and angle only:
\* it is the same in any two states with the same speed and angle, whatever
\* the status and the satellite's position, and a launch, a reset and a
\* frame, with the crash and escape events it raises, leave it unchanged.
C15_ProjectionOfSlidersOnly ==
    /\ [](trajectoryStats = TrajectoryStats(speed, angle))
    /\ [][lastOp' \in {"launch", "reset", "frame"} =>
            trajectoryStats' = trajectoryStats]_vars

\* A run away from the default sliders has crashed, and the projection
\* shown is still that of the sliders.
C15_Witness ==
    /\ lastOp = "frame"
    /\ prevStatus = "ORBITING"
    /\ status = "CRASH"
    /\ satPos # InitialPos
    /\ <<speed, angle>> # <<SPEED_DEFAULT, 0>>
    /\ trajectoryStats = TrajectoryStats(speed, angle)
    /\ trajectoryStats # TrajectoryStats(SPEED_DEFAULT, 0)

\* C16: at the default sliders (speed 2.2, angle 0, with GM = 20 and
\* R0 = 4) the projection has E < 0, an eccentricity near 0 (below 0.05), an
\* apoapsis within 1% of R0 and maxAU within 1% of 1.0, and so carries the
\* label of the nearest orbit.
C16_DefaultProjection ==
    speed = 22 /\ angle = 0 /\ GM = 20 /\ INITIAL_RADIUS = 4 =>
        /\ trajectoryStats.energy < 0
        /\ Eccentricity(speed, angle) # NaN
        /\ Eccentricity(speed, angle) * 20 < 10000
        /\ Abs(Apoapsis(speed, angle) - INITIAL_RADIUS * PosScale) * 100
               <= INITIAL_RADIUS * PosScale
        /\ Abs(trajectoryStats.maxAU - PosScale) * 100 <= PosScale
        /\ trajectoryStats.targetText = "Low Earth Orbit"

\* The sliders are back at their defaults after a run at another setting
C16_Witness ==
    /\ speed = SPEED_DEFAULT
    /\ angle = 0
    /\ lastOp = "speed"
    /\ launchSpeed = SPEED_MIN
    /\ status = "IDLE"
    /\ trajectoryStats.targetText = "Low Earth Orbit"

\* C17: for every slider setting with E < 0 the argument of the square root,
\* 1 + 2*E*h^2/GM^2, is at least 0 and below 1, so the eccentricity is a
\* number in [0, 1) and the apoapsis and maxAU computed from it are finite
\* and positive.
C17_EccentricityInRange ==
    trajectoryStats.energy < 0 =>
        /\ EccSquared(speed, angle) >= 0
        /\ EccSquared(speed, angle) < EccOne
        /\ Eccentricity(speed, angle) # NaN
        /\ Eccentricity(speed, angle) >= 0
        /\ Eccentricity(speed, angle) < 10000
        /\ Apoapsis(speed, angle) > 0
        /\ Apoapsis(speed, angle) < 2 * SemiMajorAxis(speed)
        /\ trajectoryStats.maxAU > 0
        /\ trajectoryStats.maxAU < Infinity

\* The bound setting closest to the parabolic boundary: speed 3.1 at 45
\* degrees
C17_Witness ==
    /\ speed = SPEED_MAX - 4
    /\ Abs(angle) = ANGLE_MAX
    /\ trajectoryStats.energy < 0
    /\ EccSquared(speed, angle) * 10 > EccOne * 9

\* C18: the escape notification is one-shot: a frame emits ESCAPE at most
\* once, and not at all when the run has already emitted it (the status is
\* ESCAPE only from the emission until the next reset or parameter change).
C18_EscapeOneShot ==
    [][lastOp' = "frame" =>
         /\ escapes' <= 1
         /\ (status = "ESCAPE" => escapes' = 0)]_vars

\* v^2/2 - GM/r of a position and a velocity, in 1/PosScale
OrbitEnergy(p, v) ==
    LET w == [i \in 1..3 |-> RDiv(v[i], VelScale \div PosScale)]
    IN  RDiv(w[1] * w[1] + w[2] * w[2] + w[3] * w[3], 2 * PosScale)
            - RDiv(GM * PosScale * PosScale, Length(p))

\* C19: energy stability: in a run launched bound (E < 0) that has not
\* crashed, the specific energy v^2/2 - GM/r of the satellite's position and
\* velocity stays within a small tolerance (here a quarter of |E|) of the
\* energy of the launch.
C19_EnergyStable ==
    /\ status \in {"ORBITING", "ESCAPE"}
    /\ ~crashed
    /\ SpecificEnergy(launchSpeed) < 0
    => 4 * Abs(OrbitEnergy(satPos, satVel) - SpecificEnergy(launchSpeed))
           <= -SpecificEnergy(launchSpeed)

\* The loop's state after k sub-steps that all applied their motion
RECURSIVE FreeSteps(_, _, _)
FreeSteps(k, s, dt) ==
    IF k = 0 THEN s
    ELSE LET q == FreeSteps(k - 1, s, dt)
         IN  SubStep(q, Length(q.pos), dt)

FrameStart == [pos |-> satPos, vel |-> satVel, esc |-> 0, crash |-> FALSE,
               done |-> 0]

\* The sub-steps of a frame of delta that start below PLANET_RADIUS + 0.1
\* when every sub-step before them has applied its motion
CrashingSubSteps(delta) ==
    {k \in 0..(STEPS - 1) :
        Length(FreeSteps(k, FrameStart, SubDt(delta)).pos)
            < 2 * PosScale + PosScale \div 10}

FirstOf(S) == CHOOSE k \in S : \A j \in S : k <= j

\* C20: in an active frame the first sub-step that starts with
\* |position| < 2.1 sets the crashed flag and the status CRASH and ends the
\* frame: the position and velocity left are those that sub-step started
\* with (the sub-steps before it applied their motion, it and the later ones
\* none), no escape is tested from it on, and the trail is not appended.  A
\* frame without such a sub-step does not crash.
C20_CrashDetection ==
    [][lastOp' = "frame" /\ running /\ ~crashed =>
         IF CrashingSubSteps(frameDt') # {}
         THEN \E q \in {FreeSteps(FirstOf(CrashingSubSteps(frameDt')),
                                   FrameStart, SubDt(frameDt'))} :
                  /\ crashed'
                  /\ status' = "CRASH"
                  /\ satPos' = q.pos
                  /\ satVel' = q.vel
                  /\ applied' = FirstOf(CrashingSubSteps(frameDt'))
                  /\ escapes' = q.esc
                  /\ trail' = trail
         ELSE /\ ~crashed'
              /\ status' # "CRASH"
              /\ applied' = STEPS]_vars

\* A frame has crashed in its third or fourth sub-step, after sub-steps that
\* moved the satellite
C20_Witness ==
    /\ lastOp = "frame"
    /\ prevStatus = "ORBITING"
    /\ status = "CRASH"
    /\ crashed
    /\ applied >= 2
    /\ applied < STEPS
    /\ moved
    /\ Length(satPos) < 2 * PosScale + PosScale \div 10
    /\ Len(trail) >= 2

\* One sub-step as the claim describes it, on <<position, velocity>> with the
\* step h in ms: the acceleration is GM / r^2 toward the centre at the
\* position before the step, the velocity takes it first and the position
\* then advances with the new velocity.
ClaimedAccel(p, r, g) ==
    <<RDiv(-RDiv(p[1] * UnitScale, r) * g, UnitScale),
      RDiv(-RDiv(p[2] * UnitScale, r) * g, UnitScale),
      RDiv(-RDiv(p[3] * UnitScale, r) * g, UnitScale)>>

ClaimedVel(v, a, h) ==
    <<v[1] + RDiv(a[1] * h, 1000), v[2] + RDiv(a[2] * h, 1000),
      v[3] + RDiv(a[3] * h, 1000)>>

ClaimedPos(p, v, h) ==
    <<p[1] + RDiv(v[1] * h, 1000 * (VelScale \div PosScale)),
      p[2] + RDiv(v[2] * h, 1000 * (VelScale \div PosScale)),
      p[3] + RDiv(v[3] * h, 1000 * (VelScale \div PosScale))>>

ClaimedAdvance(p, v, h) == <<ClaimedPos(p, v, h), v>>

ClaimedSubStep(pv, h) ==
    ClaimedAdvance(pv[1],
                   ClaimedVel(pv[2],
                              ClaimedAccel(pv[1], Length(pv[1]),
                                           Gravity(Length(pv[1]))),
                              h),
                   h)

RECURSIVE ClaimedSubSteps(_, _, _)
ClaimedSubSteps(k, pv, h) ==
    IF k = 0 THEN pv ELSE ClaimedSubStep(ClaimedSubSteps(k - 1, pv, h), h)

\* C21: an active frame applies at most 4 sub-steps, and exactly 4 unless it
\* crashes; each has a quarter of the frame's delta, takes the acceleration
\* GM / r^2 toward the centre at the position before the sub-step, updates
\* the velocity first and advances the position with the updated velocity.
C21_SubStepping ==
    [][lastOp' = "frame" /\ running /\ ~crashed =>
         /\ applied' <= 4
         /\ (~crashed' <=> applied' = 4)
         /\ <<satPos', satVel'>> =
                ClaimedSubSteps(applied', <<satPos, satVel>>, frameDt' \div 4)]_vars

\* A frame of 0.5 s has applied its four sub-steps and turned the velocity
C21_Witness ==
    /\ lastOp = "frame"
    /\ status = "ORBITING"
    /\ frameDt = 500
    /\ applied = 4
    /\ moved
    /\ satPos[1] < INITIAL_RADIUS * PosScale
    /\ satVel[1] < 0
    /\ launchAngle = 0

\* More than 0.2 apart
FarEnough(p, q) == DistanceTo(p, q) > 200

\* C22: an active frame that does not crash appends at most one point to
\* the trail; it appends exactly when the position after the sub-steps is
\* more than 0.2 from the last point of the trail, and the point appended is
\* that position; otherwise the trail is unchanged.  Hence any two
\* consecutive points of the trail are more than 0.2 apart.
C22_TrailSampling ==
    /\ [](\A i \in 1..(Len(trail) - 1) : FarEnough(trail[i], trail[i + 1]))
    /\ [][lastOp' = "frame" /\ running /\ ~crashed /\ ~crashed' =>
            IF FarEnough(trail[Len(trail)], satPos')
            THEN /\ Len(trail') <= Len(trail) + 1
                 /\ trail'[Len(trail')] = satPos'
                 /\ \A i \in 1..(Len(trail') - 1) :
                        trail'[i] = trail[i + Len(trail) + 1 - Len(trail')]
            ELSE trail' = trail]_vars

\* An integrating frame with delta 0 has left a trail of several points
\* unchanged
C22_Witness ==
    /\ lastOp = "frame"
    /\ status = "ORBITING"
    /\ applied = STEPS
    /\ ~moved
    /\ Len(trail) >= 3
    /\ trail[Len(trail)] = satPos
    /\ trail[1] = InitialPos

\* C23: planarity: in every reachable state the out-of-plane (y) component
\* of the position and of the velocity is zero, and so is that of every
\* point of the trail.
C23_Planar ==
    /\ satPos[2] = 0
    /\ satVel[2] = 0
    /\ \A i \in 1..Len(trail) : trail[i][2] = 0

\* After several frames of a launch at 45 degrees the satellite has left
\* the x axis and moves in both in-plane directions
C23_Witness ==
    /\ lastOp = "frame"
    /\ steps >= 3
    /\ launchAngle = ANGLE_MAX
    /\ satPos[1] # 0
    /\ satPos[3] # 0
    /\ satVel[1] # 0
    /\ satVel[3] # 0
    /\ satPos[2] = 0
    /\ Len(trail) >= 3

\* C24: the flags are consistent in every reachable state: running is true
\* exactly when the status is not IDLE, and crashed is true exactly when the
\* status is CRASH.
C24_FlagsConsistent ==
    /\ running <=> status # "IDLE"
    /\ crashed <=> status = "CRASH"

\* A launch was asked for after a crash and ignored
C24_Witness ==
    /\ lastOp = "launch"
    /\ prevOp = "frame"
    /\ prevStatus = "CRASH"
    /\ status = "CRASH"
    /\ running
    /\ crashed

\* C25: whenever the status is IDLE the satellite is in the initial state of
\* the current sliders: position (4, 0, 0), velocity (speed * sin(angle), 0,
\* -speed * cos(angle)), crashed false and a trail of exactly the injection
\* point; a launch writes none of them.
C25_IdleIsInitial ==
    /\ [](status = "IDLE" =>
             /\ satPos = <<4 * PosScale, 0, 0>>
             /\ satVel = <<RDiv(Sin(angle) * speed, 10), 0,
                           -RDiv(Cos(angle) * speed, 10)>>
             /\ ~crashed
             /\ trail = <<satPos>>)
    /\ [][lastOp' = "launch" =>
            UNCHANGED <<satPos, satVel, crashed, trail>>]_vars

\* A crashed run at speed 1.0 has been reset
C25_Witness ==
    /\ lastOp = "reset"
    /\ prevStatus = "CRASH"
    /\ status = "IDLE"
    /\ speed = SPEED_MIN
    /\ angle = 0
    /\ satVel = <<0, 0, -100000>>
    /\ trail = <<InitialPos>>

\* C26: the integrator raises ESCAPE only for launches the projection
\* classifies as escape: in a run launched with E < 0 no sub-step starts
\* beyond the escape radius and the status is never ESCAPE.
C26_EscapeOnlyIfPredicted ==
    status # "IDLE" /\ ~PredictsEscape(launchSpeed) =>
        /\ status # "ESCAPE"
        /\ escapes = 0
        /\ Length(satPos) <= 60 * PosScale

\* |position| < 2.1
Inside(p) == Length(p) < 2 * PosScale + PosScale \div 10

\* The first k sub-steps from s on each start with |position| >= 2.1
RECURSIVE StartOutside(_, _, _)
StartOutside(k, s, dt) ==
    \/ k = 0
    \/ /\ ~Inside(s.pos)
       /\ StartOutside(k - 1, SubStep(s, Length(s.pos), dt), dt)

\* C27: the crash test is made only at the start of a sub-step: a frame can
\* end with |position| < 2.1 and a status other than CRASH, and the next
\* active frame then reports CRASH in its first sub-step and changes neither
\* the position nor the velocity; every sub-step that applies motion starts
\* with |position| >= 2.1.
C27_CrashAtNextFrame ==
    [][lastOp' = "frame" /\ running /\ ~crashed =>
         /\ (Inside(satPos) =>
                /\ status' = "CRASH"
                /\ crashed'
                /\ applied' = 0
                /\ satPos' = satPos
                /\ satVel' = satVel
                /\ trail' = trail)
         /\ StartOutside(applied', FrameStart, SubDt(frameDt'))]_vars

\* A frame has ended below 2.1 without reporting the crash
C27_Witness ==
    /\ lastOp = "frame"
    /\ status = "ORBITING"
    /\ running
    /\ ~crashed
    /\ applied = STEPS
    /\ Inside(satPos)
    /\ trail[Len(trail)] = satPos

\* C28: gravity is never evaluated at or near the centre: every sub-step
\* that computes the acceleration has r >= 2.1, so r is never 0, the
\* position normalised is never the zero vector and GM / r^2 is at most
\* GM / 2.1^2.
C28_GravityAwayFromCentre ==
    [][lastOp' = "frame" /\ running /\ ~crashed =>
         \E radii \in {FrameRadii(satPos, satVel, frameDt')} :
             /\ Len(radii) >= applied'
             /\ \A i \in 1..applied' :
                    /\ radii[i] * 10 >= 21 * PosScale
                    /\ Gravity(radii[i]) > 0
                    /\ Gravity(radii[i]) * 441 <= GM * VelScale * 100 + 441]_vars

\* A frame has applied gravity four times on the way down, the last time
\* below r = 2.5
C28_Witness ==
    /\ lastOp = "frame"
    /\ applied = STEPS
    /\ frameDt > 0
    /\ status = "ORBITING"
    /\ moved
    /\ Length(satPos) < 2 * PosScale + PosScale \div 2
    /\ Length(satPos) >= 2 * PosScale + PosScale \div 10
    /\ satVel[1] < 0

\* A coordinate (1/PosScale) times a velocity component (1/VelScale), in
\* 1/(PosScale * PosScale)
TimesVel(x, w) ==
    x * (w \div (VelScale \div PosScale))
        + RDiv(x * (w % (VelScale \div PosScale)), VelScale \div PosScale)

\* The specific angular momentum: the component of position x velocity along
\* the axis the orbit turns about, positive for the sense of the launch
Momentum(p, v) == TimesVel(p[3], v[1]) - TimesVel(p[1], v[3])

\* R0 * speed * cos(angle) of the most recent launch, in the unit of Momentum
LaunchMomentum ==
    AngularMomentum(launchSpeed, launchAngle)
        * ((PosScale * PosScale) \div VelScale)

\* C29: the sub-steps conserve the specific angular momentum: throughout a
\* run position x velocity keeps its launch value R0 * speed * cos(angle)
\* (to the rounding of the arithmetic: here within 1%, and within 0.5% over
\* one frame), it starts at exactly that value, and its sign never changes,
\* so the satellite never reverses its sense of rotation.
C29_AngularMomentumConserved ==
    /\ [](status # "IDLE" =>
             /\ Momentum(satPos, satVel) > 0
             /\ 100 * Abs(Momentum(satPos, satVel) - LaunchMomentum)
                    <= LaunchMomentum)
    /\ [][/\ (lastOp' = "launch" /\ status = "IDLE" =>
                 Momentum(satPos', satVel') = LaunchMomentum')
          /\ (lastOp' = "frame" =>
                 200 * Abs(Momentum(satPos', satVel') - Momentum(satPos, satVel))
                     <= LaunchMomentum)]_vars

\* After six frames, some of 4 s, a launch at 45 degrees is on the far side
\* of the planet with its angular momentum kept
C29_Witness ==
    /\ lastOp = "frame"
    /\ steps = 6
    /\ frameDt = 4000
    /\ status # "CRASH"
    /\ launchAngle # 0
    /\ satPos[1] < 0
    /\ Momentum(satPos, satVel) # LaunchMomentum
    /\ 100 * Abs(Momentum(satPos, satVel) - LaunchMomentum) <= LaunchMomentum

\* C30: the freeze after a crash does not depend on the frame callback
\* seeing the crashed flag: a frame that runs after a crash with the
\* callback still seeing crashed = false and running = true changes neither
\* the position, the velocity nor the trail; it finds the crash again in its
\* first sub-step and emits CRASH again, so the status stays CRASH.
C30_FreezeWithoutFlag ==
    [][lastOp' = "stale" =>
         /\ satPos' = satPos
         /\ satVel' = satVel
         /\ trail' = trail
         /\ applied' = 0
         /\ escapes' = 0
         /\ crashed'
         /\ status = "CRASH"
         /\ status' = "CRASH"]_vars

\* Two frames of 4 s have run after the crash before the flag was seen
C30_Witness ==
    /\ lastOp = "stale"
    /\ prevOp = "stale"
    /\ frameDt = 4000
    /\ status = "CRASH"
    /\ crashed
    /\ running
    /\ ~moved
    /\ Len(trail) >= 2

=============================================================================
